---- MODULE Spec2Model ----
(***************************************************************************)
(* Model of crates/make-binidx/toucan_to_messages.py: the conversion of a  *)
(* Toucan conversation (roles user, assistant, tool_call, tool_response)   *)
(* into the block-structured MessagesRequest format, and the driver loop   *)
(* of main that filters, converts and counts the rows of the dataset.      *)
(*                                                                         *)
(* The scan position i keeps Python's 0-based value: the turn under the    *)
(* scan is messages[i + 1].                                                *)
(***************************************************************************)
EXTENDS Integers, Sequences, FiniteSets, TLC

VARIABLES
    messages,              \* convert_messages: the parsed list of turns
    i,                     \* convert_messages: scan position (0-based)
    tool_call_id_counter,  \* convert_messages: per-row id counter
    result,                \* convert_messages: the output Block-Messages
    pc,                    \* convert_messages: "idle", "scan", "returned", "raised"
    args,                  \* main: the parsed command line
    messages_json,         \* main: loop variable, the messages cell of the row
    tools_json,            \* main: loop variable, the tools cell of the row
    count,                 \* main: rows converted
    errors,                \* main: rows that raised in convert_row
    filtered_lang,         \* main: rows rejected by the language filter
    filtered_tool_calls,   \* main: rows rejected by the tool-call count filter
    processed,             \* main: rows read
    stdout,                \* main: the records printed to standard output
    mpc                    \* main: "start", "sample", "loop", "done", "aborted"

scanVars == <<messages, i, tool_call_id_counter, result, pc>>
mainVars == <<args, messages_json, tools_json, count, errors, filtered_lang,
              filtered_tool_calls, processed, stdout, mpc>>
vars == <<messages, i, tool_call_id_counter, result, pc, args, messages_json,
          tools_json, count, errors, filtered_lang, filtered_tool_calls, processed,
          stdout, mpc>>

----------------------------------------------------------------------------
(* Bounds of the model.                                                    *)

MaxLen == 5        \* longest row of Spec, in turns
MaxWideLen == 3    \* longest ordinary row of SpecWide, in turns
MaxTail == 2       \* turns that follow the long tool_call run of a wide row
MaxRows == 2       \* rows the source of SpecMain yields at most

----------------------------------------------------------------------------
(* Turns.  A turn is an element of the decoded messages list: a JSON       *)
(* object with the keys it carries, or a JSON value that is not an object. *)

Roles == {"user", "assistant", "tool_call", "tool_response", "system"}

Hello == "Hello"
LongEnglish == "Please find me a flight to Paris"
CallF == "{'name': 'f', 'arguments': '{}'}"
CallG == "{'name': 'g', 'arguments': 'oops'}"

Turn(r, c) == [j |-> "object", keys |-> {"role", "content"}, role |-> r, content |-> c]
NoRole(c) == [j |-> "object", keys |-> {"content"}, role |-> "", content |-> c]
NoContent(r) == [j |-> "object", keys |-> {"role"}, role |-> r, content |-> ""]
NotObject == [j |-> "string", keys |-> {}, role |-> "", content |-> ""]

\* msg[k] of Python: the exception the subscript raises, or "none".
GetItemExc(msg, k) ==
    IF msg.j # "object" THEN "TypeError"
    ELSE IF k \notin msg.keys THEN "KeyError"
    ELSE "none"

----------------------------------------------------------------------------
(* Identifiers: f"toolu_{n:04d}".                                          *)

IdWidth == 4

RECURSIVE Digits(_)
Digits(n) == IF n < 10 THEN <<n>> ELSE Digits(n \div 10) \o <<n % 10>>

\* format(n, "04d"): the decimal digits of n, left-padded with zeros to a
\* minimum width of IdWidth.
Fmt04d(n) ==
    LET d == Digits(n)
    IN  IF Len(d) >= IdWidth THEN d
        ELSE [k \in 1..(IdWidth - Len(d)) |-> 0] \o d

ToolId(n) == [prefix |-> "toolu_", digits |-> Fmt04d(n)]

----------------------------------------------------------------------------
(* parse_tool_call: the content of a tool_call turn is a Python dict       *)
(* literal with a name and a JSON string of arguments.                     *)

parse_tool_call(content) ==
    IF content = CallF THEN [name |-> "f", input |-> "{}"]
    ELSE IF content = CallG THEN [name |-> "g", input |-> "{}"]
    ELSE [name |-> "unknown", input |-> "{}"]

----------------------------------------------------------------------------
(* Block-Messages.  The content of a message is a text or a list of        *)
(* blocks; kind tells which.                                               *)

TextMessage(r, c) == [role |-> r, kind |-> "text", text |-> c, blocks |-> <<>>]
BlockMessage(r, bs) == [role |-> r, kind |-> "blocks", text |-> "", blocks |-> bs]

Min(S) == CHOOSE x \in S : \A y \in S : x <= y

\* One clean iteration of an inner while loop on turn p (0-based): the turn
\* has the role of the run and its content can be read.
CleanIteration(m, p, r) ==
    /\ GetItemExc(m[p + 1], "role") = "none"
    /\ m[p + 1].role = r
    /\ GetItemExc(m[p + 1], "content") = "none"

\* The position at which the inner while loop over role r, entered at
\* position p, stops iterating cleanly.
LoopStop(m, p, r) ==
    Min({q \in p..Len(m) : q = Len(m) \/ ~CleanIteration(m, q, r)})

\* The exception with which the inner loop over role r leaves at position q,
\* or "none" when its condition is simply false there.
LoopExc(m, q, r) ==
    IF q = Len(m) THEN "none"
    ELSE IF GetItemExc(m[q + 1], "role") # "none" THEN GetItemExc(m[q + 1], "role")
    ELSE IF m[q + 1].role # r THEN "none"
    ELSE GetItemExc(m[q + 1], "content")

\* Faulty variant of ToolUses: the id is formatted before the counter is
\* incremented.
ToolUses_IdBeforeIncrement(m, p, c) ==
    LET n == LoopStop(m, p, "tool_call") - p
    IN  [k \in 1..n |->
            LET parsed == parse_tool_call(m[p + k].content)
            IN  [type |-> "tool_use", id |-> ToolId(c + k - 1),
                 name |-> parsed.name, input |-> parsed.input]]

\* Lines 121-132: the tool_use blocks of the tool_call run that starts at
\* position p with the counter at c.
ToolUses(m, p, c) ==
    LET n == LoopStop(m, p, "tool_call") - p
    IN  [k \in 1..n |->
            LET parsed == parse_tool_call(m[p + k].content)
            IN  [type |-> "tool_use", id |-> ToolId(c + k),
                 name |-> parsed.name, input |-> parsed.input]]

\* Faulty variant of ResultId: the surplus id leaves out the + 1.
ResultId_NoPlusOne(tool_uses, counter, response_idx) ==
    IF response_idx < Len(tool_uses) THEN tool_uses[response_idx + 1].id
    ELSE ToolId(counter + response_idx)

\* Lines 144-147: the id of the tool_result at response_idx.
ResultId(tool_uses, counter, response_idx) ==
    IF response_idx < Len(tool_uses) THEN tool_uses[response_idx + 1].id
    ELSE ToolId(counter + response_idx + 1)

\* Lines 140-155: the tool_result blocks of the tool_response run that
\* starts at position q, after the counter has reached c.
ToolResults(m, q, c, tool_uses) ==
    LET n == LoopStop(m, q, "tool_response") - q
    IN  [k \in 1..n |->
            [type |-> "tool_result",
             tool_use_id |-> ResultId(tool_uses, c, k - 1),
             content |-> m[q + k].content]]

\* Faulty variant of ToolCallBranch: the user message is appended without the
\* test of line 157.
ToolCallBranch_AlwaysPaired(m, s) ==
    LET q == LoopStop(m, s.i, "tool_call")
        tool_uses == ToolUses(m, s.i, s.tool_call_id_counter)
        c == s.tool_call_id_counter + Len(tool_uses)
        e1 == LoopExc(m, q, "tool_call")
        q2 == LoopStop(m, q, "tool_response")
        tool_results == ToolResults(m, q, c, tool_uses)
        e2 == LoopExc(m, q2, "tool_response")
        r1 == Append(s.result, BlockMessage("assistant", tool_uses))
    IN  IF e1 # "none"
        THEN [i |-> q, tool_call_id_counter |-> c, result |-> s.result, exc |-> e1]
        ELSE IF e2 # "none"
        THEN [i |-> q2, tool_call_id_counter |-> c, result |-> r1, exc |-> e2]
        ELSE [i |-> q2, tool_call_id_counter |-> c,
              result |-> Append(r1, BlockMessage("user", tool_results)),
              exc |-> "none"]

\* Lines 119-161: the tool_call branch of the scan.
ToolCallBranch(m, s) ==
    LET q == LoopStop(m, s.i, "tool_call")
        tool_uses == ToolUses(m, s.i, s.tool_call_id_counter)
        c == s.tool_call_id_counter + Len(tool_uses)
        e1 == LoopExc(m, q, "tool_call")
        q2 == LoopStop(m, q, "tool_response")
        tool_results == ToolResults(m, q, c, tool_uses)
        e2 == LoopExc(m, q2, "tool_response")
        r1 == Append(s.result, BlockMessage("assistant", tool_uses))
    IN  IF e1 # "none"
        THEN [i |-> q, tool_call_id_counter |-> c, result |-> s.result, exc |-> e1]
        ELSE IF e2 # "none"
        THEN [i |-> q2, tool_call_id_counter |-> c, result |-> r1, exc |-> e2]
        ELSE [i |-> q2, tool_call_id_counter |-> c,
              result |-> IF tool_results # <<>>
                         THEN Append(r1, BlockMessage("user", tool_results))
                         ELSE r1,
              exc |-> "none"]

\* Lines 111-113.
UserBranch(s, msg) ==
    [s EXCEPT !.result = Append(@, TextMessage("user", msg.content)), !.i = @ + 1]

\* Faulty variant of AssistantBranch: the message is appended with the role of
\* the branch above.
AssistantBranch_AsUser(s, msg) ==
    [s EXCEPT !.result = Append(@, TextMessage("user", msg.content)), !.i = @ + 1]

\* Lines 115-117.
AssistantBranch(s, msg) ==
    [s EXCEPT !.result = Append(@, TextMessage("assistant", msg.content)), !.i = @ + 1]

\* Faulty variant of UnknownBranch: the turn is kept as a user message.
UnknownBranch_Kept(s, msg) ==
    [s EXCEPT !.result = Append(@, TextMessage("user", msg.content)), !.i = @ + 1]

\* Lines 163-166.
UnknownBranch(s, msg) == [s EXCEPT !.i = @ + 1]

\* Lines 107-166: one iteration of the outer while loop, from the locals s.
ScanStep(m, s) ==
    LET msg == m[s.i + 1]
        e == IF GetItemExc(msg, "role") # "none" THEN GetItemExc(msg, "role")
             ELSE GetItemExc(msg, "content")
    IN  IF e # "none" THEN [s EXCEPT !.exc = e]
        ELSE IF msg.role = "user" THEN UserBranch(s, msg)
        ELSE IF msg.role = "assistant" THEN AssistantBranch(s, msg)
        ELSE IF msg.role = "tool_call" THEN ToolCallBranch(m, s)
        ELSE UnknownBranch(s, msg)

\* Lines 102-105: the locals at the start of convert_messages.
InitLocals == [i |-> 0, tool_call_id_counter |-> 0, result |-> <<>>, exc |-> "none"]

----------------------------------------------------------------------------
(* Cells.  A cell of the messages or tools column is NULL (None in Python) *)
(* or a string; a string is malformed JSON, JSON null, or a JSON list.     *)
(* marker is the number of occurrences of '"role": "tool_call"' in the     *)
(* text of the cell.                                                       *)

NullCell == [py |-> "None", json |-> "", items |-> <<>>, marker |-> 0]
Malformed(n) == [py |-> "str", json |-> "malformed", items |-> <<>>, marker |-> n]
JsonNull == [py |-> "str", json |-> "null", items |-> <<>>, marker |-> 0]
JsonList(xs, n) == [py |-> "str", json |-> "list", items |-> xs, marker |-> n]

\* json.loads(cell): the exception it raises, or "none".
LoadsExc(cell) ==
    IF cell.py = "None" THEN "TypeError"
    ELSE IF cell.json = "malformed" THEN "JSONDecodeError"
    ELSE "none"

\* Lines 56-58.
count_tool_calls(cell) ==
    IF cell.py = "None" THEN [exc |-> "AttributeError", n |-> 0]
    ELSE [exc |-> "none", n |-> cell.marker]

\* Lines 45-53; det is the answer of the external classifier: a language and
\* a score in hundredths, or raised.  The texts of the model carry no
\* whitespace at their ends, so that len(text.strip()) is Len(text).
DetectOutcomes ==
    {[raised |-> FALSE, lang |-> "en", score |-> 93],
     [raised |-> FALSE, lang |-> "en", score |-> 50],
     [raised |-> FALSE, lang |-> "es", score |-> 93],
     [raised |-> TRUE, lang |-> "", score |-> 0]}

is_english(text, min_confidence, det) ==
    IF text = "" \/ Len(text) < 10 THEN FALSE
    ELSE IF det.raised THEN FALSE
    ELSE det.lang = "en" /\ det.score >= min_confidence

\* Lines 105-168: the scan, run to its end or to the exception it raises.
RECURSIVE Scan(_, _)
Scan(m, s) ==
    IF s.exc # "none" \/ s.i >= Len(m) THEN s ELSE Scan(m, ScanStep(m, s))

\* Lines 94-168.
convert_messages(cell) ==
    IF LoadsExc(cell) # "none" THEN [exc |-> LoadsExc(cell), value |-> <<>>]
    ELSE IF cell.json # "list" THEN [exc |-> "TypeError", value |-> <<>>]
    ELSE LET s == Scan(cell.items, InitLocals)
         IN  [exc |-> s.exc, value |-> IF s.exc = "none" THEN s.result ELSE <<>>]

----------------------------------------------------------------------------
(* Tool declarations.  fkeys are the keys of the "function" object of a    *)
(* declaration.                                                            *)

Decl(ty, n, fk) == [j |-> "object", type |-> ty, hasFunction |-> TRUE, fkeys |-> fk, name |-> n]
DeclNoFunction(ty) == [j |-> "object", type |-> ty, hasFunction |-> FALSE, fkeys |-> {}, name |-> ""]
DeclNotObject == [j |-> "string", type |-> "", hasFunction |-> FALSE, fkeys |-> {}, name |-> ""]

\* Lines 84-90: what one declaration does to the loop of convert_tools.
ToolExc(tool) ==
    IF tool.j # "object" THEN "AttributeError"
    ELSE IF tool.type # "function" THEN "none"
    ELSE IF ~tool.hasFunction THEN "KeyError"
    ELSE IF "name" \notin tool.fkeys THEN "KeyError"
    ELSE "none"

ToolSpec(tool) ==
    [name |-> tool.name,
     description |-> IF "description" \in tool.fkeys THEN "described" ELSE "",
     input_schema |-> IF "parameters" \in tool.fkeys THEN "declared" ELSE "{type: object}"]

\* Lines 82-91.
RECURSIVE ToolsLoop(_, _)
ToolsLoop(tools, res) ==
    IF tools = <<>> THEN [exc |-> "none", value |-> res]
    ELSE IF ToolExc(Head(tools)) # "none" THEN [exc |-> ToolExc(Head(tools)), value |-> <<>>]
    ELSE IF Head(tools).type = "function"
    THEN ToolsLoop(Tail(tools), Append(res, ToolSpec(Head(tools))))
    ELSE ToolsLoop(Tail(tools), res)

\* Lines 79-91.
convert_tools(cell) ==
    IF LoadsExc(cell) # "none" THEN [exc |-> LoadsExc(cell), value |-> <<>>]
    ELSE IF cell.json # "list" THEN [exc |-> "TypeError", value |-> <<>>]
    ELSE ToolsLoop(cell.items, <<>>)

----------------------------------------------------------------------------
(* Output records.  keys are the keys of the dict, nulls those among them  *)
(* whose value is None.                                                    *)

NoRecord == [keys |-> {}, nulls |-> {}, model |-> "", messages |-> <<>>,
             tools |-> <<>>, max_tokens |-> 0]

\* Lines 188-198.
convert_row(mcell, tcell) ==
    LET ms == convert_messages(mcell)
        ts == convert_tools(tcell)
    IN  IF ms.exc # "none" THEN [exc |-> ms.exc, value |-> NoRecord]
        ELSE IF ts.exc # "none" THEN [exc |-> ts.exc, value |-> NoRecord]
        ELSE [exc |-> "none",
              value |-> [keys |-> {"model", "messages", "tools", "max_tokens"},
                         nulls |-> IF ts.value # <<>> THEN {} ELSE {"tools"},
                         model |-> "rwkv",
                         messages |-> ms.value,
                         tools |-> ts.value,
                         max_tokens |-> 4096]]

\* Line 302: {k: v for k, v in result.items() if v is not None}.
RemoveNone(rec) == [rec EXCEPT !.keys = rec.keys \ rec.nulls, !.nulls = {}]

\* Lines 289-291: next((m["content"] for m in messages if m["role"] == "user"), "").
RECURSIVE FirstUser(_)
FirstUser(ms) ==
    IF ms = <<>> THEN [exc |-> "none", text |-> ""]
    ELSE IF GetItemExc(Head(ms), "role") # "none"
    THEN [exc |-> GetItemExc(Head(ms), "role"), text |-> ""]
    ELSE IF Head(ms).role # "user" THEN FirstUser(Tail(ms))
    ELSE IF GetItemExc(Head(ms), "content") # "none"
    THEN [exc |-> GetItemExc(Head(ms), "content"), text |-> ""]
    ELSE [exc |-> "none", text |-> Head(ms).content]

\* Faulty variant of LanguageFilter: the except clause names KeyError only.
LanguageFilter_KeyErrorOnly(a, mcell, det) ==
    IF LoadsExc(mcell) # "none" THEN "abort"
    ELSE IF mcell.json # "list" THEN "abort"
    ELSE LET u == FirstUser(mcell.items)
         IN  IF u.exc = "KeyError" THEN "filtered"
             ELSE IF u.exc # "none" THEN "abort"
             ELSE IF ~is_english(u.text, a.lang_confidence, det) THEN "filtered"
             ELSE "pass"

\* Lines 286-297: "pass", "filtered", or "abort" when the exception is not
\* one of those the except clause names.
LanguageFilter(a, mcell, det) ==
    IF LoadsExc(mcell) = "JSONDecodeError" THEN "filtered"
    ELSE IF LoadsExc(mcell) # "none" THEN "abort"
    ELSE IF mcell.json # "list" THEN "abort"
    ELSE LET u == FirstUser(mcell.items)
         IN  IF u.exc = "KeyError" THEN "filtered"
             ELSE IF u.exc # "none" THEN "abort"
             ELSE IF ~is_english(u.text, a.lang_confidence, det) THEN "filtered"
             ELSE "pass"

\* Lines 299-313.
ConvertAndPrint(mcell, tcell) ==
    LET r == convert_row(mcell, tcell)
    IN  IF r.exc # "none" THEN [outcome |-> "error", line |-> NoRecord]
        ELSE [outcome |-> "converted", line |-> RemoveNone(r.value)]

\* Faulty variant of LoopBody: the language filter comes before the tool-call
\* count filter.
LoopBody_LanguageFirst(a, mcell, tcell, det) ==
    LET tc == count_tool_calls(mcell)
        lf == LanguageFilter(a, mcell, det)
    IN  IF ~a.no_lang_filter /\ lf = "abort"
        THEN [outcome |-> "abort", line |-> NoRecord]
        ELSE IF ~a.no_lang_filter /\ lf = "filtered"
        THEN [outcome |-> "filtered_lang", line |-> NoRecord]
        ELSE IF ~a.max_tool_calls.none /\ tc.exc # "none"
        THEN [outcome |-> "abort", line |-> NoRecord]
        ELSE IF ~a.max_tool_calls.none /\ tc.n > a.max_tool_calls.v
        THEN [outcome |-> "filtered_tool_calls", line |-> NoRecord]
        ELSE ConvertAndPrint(mcell, tcell)

\* Lines 276-313: the body of the driver loop for one row.
LoopBody(a, mcell, tcell, det) ==
    LET tc == count_tool_calls(mcell)
        lf == LanguageFilter(a, mcell, det)
    IN  IF ~a.max_tool_calls.none /\ tc.exc # "none"
        THEN [outcome |-> "abort", line |-> NoRecord]
        ELSE IF ~a.max_tool_calls.none /\ tc.n > a.max_tool_calls.v
        THEN [outcome |-> "filtered_tool_calls", line |-> NoRecord]
        ELSE IF ~a.no_lang_filter /\ lf = "abort"
        THEN [outcome |-> "abort", line |-> NoRecord]
        ELSE IF ~a.no_lang_filter /\ lf = "filtered"
        THEN [outcome |-> "filtered_lang", line |-> NoRecord]
        ELSE ConvertAndPrint(mcell, tcell)

----------------------------------------------------------------------------
(* The rows.                                                               *)

ContentPatterns == {<<CallF, CallG, Hello>>, <<Hello, CallG, CallF>>}

RowOf(rs, cp) == [k \in 1..Len(rs) |-> Turn(rs[k], cp[((k - 1) % Len(cp)) + 1])]

RoleSeqs(n) == UNION {[1..l -> Roles] : l \in 0..n}

RaggedTurns == {NoRole(Hello), NoContent("user"), NoContent("tool_call"),
                NoContent("tool_response"), NotObject}

RaggedRows ==
    {<<t>> : t \in RaggedTurns}
        \cup {<<Turn(r, CallF), t>> : r \in Roles, t \in RaggedTurns}
        \cup {<<Turn("tool_call", CallF), Turn("tool_response", Hello), t>> : t \in RaggedTurns}

Rows == {RowOf(rs, cp) : rs \in RoleSeqs(MaxLen), cp \in ContentPatterns} \cup RaggedRows

\* A run of tool_call turns long enough to exhaust the ids of IdWidth digits.
LongRun == [k \in 1..(10 ^ IdWidth) |-> Turn("tool_call", CallF)]

WideRows ==
    {RowOf(rs, cp) : rs \in RoleSeqs(MaxWideLen), cp \in ContentPatterns}
        \cup RaggedRows
        \cup {LongRun \o RowOf(rs, <<Hello>>) : rs \in RoleSeqs(MaxTail)}

----------------------------------------------------------------------------
(* convert_messages as a state machine: one action per branch of the scan. *)

Locals == [i |-> i, tool_call_id_counter |-> tool_call_id_counter,
           result |-> result, exc |-> "none"]

SetLocals(s) ==
    /\ i' = s.i
    /\ tool_call_id_counter' = s.tool_call_id_counter
    /\ result' = s.result
    /\ pc' = IF s.exc # "none" THEN "raised" ELSE "scan"
    /\ UNCHANGED mainVars

AtTurn == pc = "scan" /\ i < Len(messages)

Readable(msg) == GetItemExc(msg, "role") = "none" /\ GetItemExc(msg, "content") = "none"

\* Lines 101-105.
Call(row) ==
    /\ pc = "idle"
    /\ messages' = row
    /\ SetLocals(InitLocals)

CallRow == pc = "idle" /\ \E row \in Rows : Call(row)

CallWideRow == pc = "idle" /\ \E row \in WideRows : Call(row)

\* Lines 111-113.
StepUser ==
    /\ AtTurn
    /\ Readable(messages[i + 1])
    /\ messages[i + 1].role = "user"
    /\ SetLocals(ScanStep(messages, Locals))
    /\ UNCHANGED messages

\* Lines 115-117.
StepAssistant ==
    /\ AtTurn
    /\ Readable(messages[i + 1])
    /\ messages[i + 1].role = "assistant"
    /\ SetLocals(ScanStep(messages, Locals))
    /\ UNCHANGED messages

\* Lines 119-161.
StepToolCall ==
    /\ AtTurn
    /\ Readable(messages[i + 1])
    /\ messages[i + 1].role = "tool_call"
    /\ SetLocals(ScanStep(messages, Locals))
    /\ UNCHANGED messages

\* Lines 163-166.
StepUnknown ==
    /\ AtTurn
    /\ Readable(messages[i + 1])
    /\ messages[i + 1].role \notin {"user", "assistant", "tool_call"}
    /\ SetLocals(ScanStep(messages, Locals))
    /\ UNCHANGED messages

\* Lines 108-109: the subscript raises.
StepRaise ==
    /\ AtTurn
    /\ ~Readable(messages[i + 1])
    /\ SetLocals(ScanStep(messages, Locals))
    /\ UNCHANGED messages

\* Line 168.
Return ==
    /\ pc = "scan"
    /\ i >= Len(messages)
    /\ pc' = "returned"
    /\ UNCHANGED <<messages, i, tool_call_id_counter, result>>
    /\ UNCHANGED mainVars

\* The caller has taken the result, or the exception: the locals are gone.
Leave ==
    /\ pc \in {"returned", "raised"}
    /\ pc' = "idle"
    /\ messages' = <<>>
    /\ i' = 0
    /\ tool_call_id_counter' = 0
    /\ result' = <<>>
    /\ UNCHANGED mainVars

\* Lines 204-247: the defaults of the command line.
DefaultArgs == [sample |-> FALSE, no_lang_filter |-> FALSE, lang_confidence |-> 80,
                max_tool_calls |-> [none |-> TRUE, v |-> 0]]

ScanInit ==
    /\ pc = "idle"
    /\ messages = <<>>
    /\ i = 0
    /\ tool_call_id_counter = 0
    /\ result = <<>>

\* Lines 269-273.
MainInit ==
    /\ mpc = "start"
    /\ args = DefaultArgs
    /\ messages_json = NullCell
    /\ tools_json = NullCell
    /\ count = 0
    /\ errors = 0
    /\ filtered_lang = 0
    /\ filtered_tool_calls = 0
    /\ processed = 0
    /\ stdout = <<>>

Init == ScanInit /\ MainInit

Next ==
    \/ CallRow
    \/ StepUser
    \/ StepAssistant
    \/ StepToolCall
    \/ StepUnknown
    \/ StepRaise
    \/ Return
    \/ Leave

Spec == Init /\ [][Next]_vars

NextWide ==
    \/ CallWideRow
    \/ StepUser
    \/ StepAssistant
    \/ StepToolCall
    \/ StepUnknown
    \/ StepRaise
    \/ Return
    \/ Leave

SpecWide == Init /\ [][NextWide]_vars

----------------------------------------------------------------------------
(* main as a state machine: one action per way an iteration of the driver  *)
(* loop ends.                                                              *)

UserLong == Turn("user", LongEnglish)

MessagesCells ==
    {NullCell, Malformed(0), Malformed(2), JsonNull,
     JsonList(<<UserLong, Turn("assistant", Hello)>>, 0),
     JsonList(<<UserLong, Turn("tool_call", CallF), Turn("tool_response", Hello)>>, 1),
     JsonList(<<UserLong, Turn("tool_call", CallF), Turn("tool_call", CallG),
                Turn("tool_response", Hello)>>, 2),
     JsonList(<<Turn("user", Hello), Turn("assistant", Hello)>>, 0),
     JsonList(<<NoRole(Hello)>>, 0),
     JsonList(<<Turn("assistant", Hello), NoContent("user")>>, 0),
     JsonList(<<UserLong, NotObject>>, 0),
     JsonList(<<NotObject>>, 0)}

FunctionF == Decl("function", "f", {"name", "description", "parameters"})
FunctionG == Decl("function", "g", {"name"})
Retrieval == Decl("retrieval", "r", {"name"})

ToolsCells ==
    {NullCell, Malformed(0), JsonNull,
     JsonList(<<>>, 0),
     JsonList(<<FunctionF>>, 0),
     JsonList(<<Retrieval>>, 0),
     JsonList(<<FunctionG, Retrieval, FunctionF>>, 0),
     JsonList(<<DeclNoFunction("function")>>, 0),
     JsonList(<<Decl("function", "", {"description"})>>, 0),
     JsonList(<<FunctionF, DeclNotObject>>, 0)}

GoodTools == JsonList(<<FunctionF>>, 0)
GoodMessages == JsonList(<<UserLong, Turn("assistant", Hello)>>, 0)

SourceRows ==
    {<<m, t>> : m \in MessagesCells, t \in {GoodTools, Malformed(0), JsonList(<<>>, 0)}}
        \cup {<<GoodMessages, t>> : t \in ToolsCells}

ArgsSet ==
    {[sample |-> sm, no_lang_filter |-> nl, lang_confidence |-> 80, max_tool_calls |-> mx] :
        sm \in BOOLEAN, nl \in BOOLEAN,
        mx \in {[none |-> TRUE, v |-> 0], [none |-> FALSE, v |-> 0], [none |-> FALSE, v |-> 1]}}

\* Lines 247-256: the command line is parsed.
Start ==
    /\ mpc = "start"
    /\ \E a \in ArgsSet :
          /\ args' = a
          /\ mpc' = IF a.sample THEN "sample" ELSE "loop"
    /\ UNCHANGED <<messages_json, tools_json, count, errors, filtered_lang,
                   filtered_tool_calls, processed, stdout>>
    /\ UNCHANGED scanVars

\* Lines 251-256: sample mode prints the conversion of the first row.
Sample ==
    /\ mpc = "sample"
    /\ \E row \in SourceRows :
          LET r == convert_row(row[1], row[2])
          IN  /\ messages_json' = row[1]
              /\ tools_json' = row[2]
              /\ r.exc = "none"
              /\ stdout' = Append(stdout, r.value)
              /\ mpc' = "done"
    /\ UNCHANGED <<args, count, errors, filtered_lang, filtered_tool_calls, processed>>
    /\ UNCHANGED scanVars

\* Lines 253-254: the conversion of the sample row raises.
SampleRaise ==
    /\ mpc = "sample"
    /\ \E row \in SourceRows :
          /\ convert_row(row[1], row[2]).exc # "none"
          /\ messages_json' = row[1]
          /\ tools_json' = row[2]
          /\ mpc' = "aborted"
    /\ UNCHANGED <<args, count, errors, filtered_lang, filtered_tool_calls, processed, stdout>>
    /\ UNCHANGED scanVars

\* Lines 275-276: the source yields a row, and the body of the loop ends in
\* the outcome o.
Iteration(row, det, o) ==
    /\ mpc = "loop"
    /\ processed < MaxRows
    /\ LoopBody(args, row[1], row[2], det).outcome = o
    /\ messages_json' = row[1]
    /\ tools_json' = row[2]
    /\ processed' = processed + 1
    /\ UNCHANGED args
    /\ UNCHANGED scanVars

\* Lines 279-283.
RowFilteredToolCalls ==
    /\ mpc = "loop"
    /\ \E row \in SourceRows, det \in DetectOutcomes :
        /\ Iteration(row, det, "filtered_tool_calls")
        /\ filtered_tool_calls' = filtered_tool_calls + 1
        /\ UNCHANGED <<count, errors, filtered_lang, stdout, mpc>>

\* Lines 286-297.
RowFilteredLang ==
    /\ mpc = "loop"
    /\ \E row \in SourceRows, det \in DetectOutcomes :
        /\ Iteration(row, det, "filtered_lang")
        /\ filtered_lang' = filtered_lang + 1
        /\ UNCHANGED <<count, errors, filtered_tool_calls, stdout, mpc>>

\* Lines 299-304.
RowConverted ==
    /\ mpc = "loop"
    /\ \E row \in SourceRows, det \in DetectOutcomes :
        /\ Iteration(row, det, "converted")
        /\ stdout' = Append(stdout, LoopBody(args, row[1], row[2], det).line)
        /\ count' = count + 1
        /\ UNCHANGED <<errors, filtered_lang, filtered_tool_calls, mpc>>

\* Lines 310-313.
RowError ==
    /\ mpc = "loop"
    /\ \E row \in SourceRows, det \in DetectOutcomes :
        /\ Iteration(row, det, "error")
        /\ errors' = errors + 1
        /\ UNCHANGED <<count, filtered_lang, filtered_tool_calls, stdout, mpc>>

\* Lines 280 and 288-291: an exception no except clause of the loop names
\* leaves main.
RowAbort ==
    /\ mpc = "loop"
    /\ \E row \in SourceRows, det \in DetectOutcomes :
        /\ Iteration(row, det, "abort")
        /\ mpc' = "aborted"
        /\ UNCHANGED <<count, errors, filtered_lang, filtered_tool_calls, stdout>>

\* Lines 275 and 315-323: the source is exhausted, the summary is printed.
Exhausted ==
    /\ mpc = "loop"
    /\ mpc' = "done"
    /\ UNCHANGED <<args, messages_json, tools_json, count, errors, filtered_lang,
                   filtered_tool_calls, processed, stdout>>
    /\ UNCHANGED scanVars

NextMain ==
    \/ Start
    \/ Sample
    \/ SampleRaise
    \/ RowFilteredToolCalls
    \/ RowFilteredLang
    \/ RowConverted
    \/ RowError
    \/ RowAbort
    \/ Exhausted

SpecMain == Init /\ [][NextMain]_vars

----------------------------------------------------------------------------
(* Vocabulary of the properties, defined on the input row and the output   *)
(* alone.                                                                  *)

WellFormed(m) == \A k \in DOMAIN m : Readable(m[k])

\* The number of consecutive turns of role r from position p (0-based).
RECURSIVE RunLen(_, _, _)
RunLen(m, p, r) ==
    IF p < Len(m) /\ m[p + 1].role = r THEN 1 + RunLen(m, p + 1, r) ELSE 0

\* The number of turns of role r among the first p turns.
CountRole(m, p, r) == Cardinality({k \in 1..p : m[k].role = r})

IsUseMessage(msg) == msg.role = "assistant" /\ msg.kind = "blocks"
IsResultMessage(msg) == msg.role = "user" /\ msg.kind = "blocks"

\* The decimal value of a sequence of digits.
RECURSIVE DecimalValue(_)
DecimalValue(d) ==
    IF d = <<>> THEN 0
    ELSE 10 * DecimalValue(SubSeq(d, 1, Len(d) - 1)) + d[Len(d)]

IdNumber(id) == DecimalValue(id.digits)

\* The ids of the tool_use blocks of an output, in output order.
RECURSIVE UseIds(_)
UseIds(res) ==
    IF res = <<>> THEN <<>>
    ELSE LET last == res[Len(res)]
             front == UseIds(SubSeq(res, 1, Len(res) - 1))
         IN  IF IsUseMessage(last)
             THEN front \o [k \in DOMAIN last.blocks |-> last.blocks[k].id]
             ELSE front

\* The tool_result blocks of an output that have no tool_use block at their
\* position in the message before them, as <<message index, block index>>.
Surplus(res) ==
    {x \in (DOMAIN res) \X (1..MaxLen) :
        /\ IsResultMessage(res[x[1]])
        /\ x[2] \in DOMAIN res[x[1]].blocks
        /\ x[2] > Len(res[x[1] - 1].blocks)}

----------------------------------------------------------------------------
\* C4: a row whose turns all have role user or assistant is returned turn for
\* turn: as many messages as turns, in the same order, each with the role and
\* the content of its turn; during the scan the output is that of the turns
\* scanned so far.
OnlyUserAssistant(m) ==
    WellFormed(m) /\ \A k \in DOMAIN m : m[k].role \in {"user", "assistant"}

C4_PassThrough ==
    (pc \in {"scan", "returned"} /\ OnlyUserAssistant(messages)) =>
        /\ Len(result) = i
        /\ pc = "returned" => Len(result) = Len(messages)
        /\ \A k \in DOMAIN result :
              /\ result[k].role = messages[k].role
              /\ result[k].kind = "text"
              /\ result[k].text = messages[k].content

C4_Witness ==
    /\ pc = "returned"
    /\ OnlyUserAssistant(messages)
    /\ Len(messages) >= 3
    /\ \E a, b \in DOMAIN messages :
          messages[a].role # messages[b].role /\ messages[a].content # messages[b].content

----------------------------------------------------------------------------
\* The step of the scan over a run of tool_call turns.
C5_Step ==
    (pc = "scan" /\ i < Len(messages) /\ WellFormed(messages)
        /\ messages[i + 1].role = "tool_call") =>
        LET n == RunLen(messages, i, "tool_call")
            r == RunLen(messages, i + n, "tool_response")
            a == result'[Len(result) + 1]
            u == result'[Len(result) + 2]
        IN  /\ i = 0 \/ messages[i].role # "tool_call"
            /\ i' = i + n + r
            /\ Len(result') = Len(result) + (IF r > 0 THEN 2 ELSE 1)
            /\ SubSeq(result', 1, Len(result)) = result
            /\ IsUseMessage(a)
            /\ Len(a.blocks) = n
            /\ \A k \in 1..n :
                  /\ a.blocks[k].type = "tool_use"
                  /\ a.blocks[k].name = parse_tool_call(messages[i + k].content).name
            /\ r > 0 =>
                  /\ IsResultMessage(u)
                  /\ Len(u.blocks) = r
                  /\ \A k \in 1..r :
                        /\ u.blocks[k].type = "tool_result"
                        /\ u.blocks[k].content = messages[i + n + k].content

MaximalRuns(m) ==
    {p \in DOMAIN m : m[p].role = "tool_call" /\ (p = 1 \/ m[p - 1].role # "tool_call")}

C5_Count ==
    (pc = "returned" /\ WellFormed(messages)) =>
        /\ Cardinality({x \in DOMAIN result : IsUseMessage(result[x])})
              = Cardinality(MaximalRuns(messages))
        /\ \A x \in DOMAIN result :
              IsResultMessage(result[x]) => x > 1 /\ IsUseMessage(result[x - 1])

\* C5: the scan meets a tool_call turn only at the start of a maximal run of
\* tool_call turns; the step it takes there appends exactly one assistant
\* message holding one tool_use block per turn of the run, in input order,
\* followed by a user message of tool_result blocks if and only if at least one
\* tool_response turn comes right after the run; a returned output holds one
\* assistant block message per maximal run.
C5_ToolCallRuns == [][C5_Step]_vars /\ []C5_Count

C5_Witness ==
    /\ pc = "returned"
    /\ WellFormed(messages)
    /\ \E x, y \in DOMAIN result :
          /\ IsUseMessage(result[x]) /\ x = Len(result) /\ Len(result[x].blocks) = 2
          /\ result[x].blocks[1].name # result[x].blocks[2].name
          /\ IsUseMessage(result[y]) /\ y + 1 < x /\ IsResultMessage(result[y + 1])

----------------------------------------------------------------------------
\* A tool_response turn linked to a tool_call turn by tool_response turns only.
Attached(m, k) ==
    \E p \in 1..(k - 1) :
        /\ m[p].role = "tool_call"
        /\ \A q \in (p + 1)..k : m[q].role = "tool_response"

ResultBlockCount(res) ==
    Cardinality({x \in (DOMAIN res) \X (1..MaxLen) :
        IsResultMessage(res[x[1]]) /\ x[2] \in DOMAIN res[x[1]].blocks})

C10_Step ==
    (pc = "scan" /\ i < Len(messages) /\ WellFormed(messages)
        /\ messages[i + 1].role = "tool_response") =>
        /\ ~Attached(messages, i + 1)
        /\ result' = result
        /\ tool_call_id_counter' = tool_call_id_counter
        /\ i' = i + 1
        /\ pc' = "scan"

C10_Count ==
    (pc = "returned" /\ WellFormed(messages)) =>
        ResultBlockCount(result)
            = Cardinality({k \in DOMAIN messages :
                  messages[k].role = "tool_response" /\ Attached(messages, k)})

\* C10: a tool_response turn met by the scan itself (not consumed by the loop
\* that follows a tool_call run) adds nothing to the output, leaves the counter
\* alone and advances the position by one; a returned output holds one
\* tool_result block per tool_response turn that is linked to a tool_call run
\* by tool_response turns only, and none for the others.
C10_StrayResponse == [][C10_Step]_vars /\ []C10_Count

C10_Witness ==
    /\ pc = "returned"
    /\ WellFormed(messages)
    /\ ResultBlockCount(result) >= 1
    /\ ResultBlockCount(result) < CountRole(messages, Len(messages), "tool_response")
    /\ tool_call_id_counter = CountRole(messages, Len(messages), "tool_call")

----------------------------------------------------------------------------
\* The ids number the tool_use blocks from 1, and the counter counts them.
C1_Numbered(ids) ==
    /\ \A k \in DOMAIN ids :
          /\ ids[k].prefix = "toolu_"
          /\ IdNumber(ids[k]) = k
          /\ \A d \in DOMAIN ids[k].digits : ids[k].digits[d] \in 0..9
    /\ Cardinality({ids[k] : k \in DOMAIN ids}) = Len(ids)
    /\ pc \in {"scan", "returned"} => tool_call_id_counter = Len(ids)

\* C1 (as amended): read in output order, the k-th tool_use block of a row
\* carries the id toolu_ followed by the decimal number k, zero-padded to 4
\* digits while k is below 10000 and written in full (5 digits or more, no
\* leading zero) from 10000 on; no two tool_use blocks share an id, and the
\* counter, which starts at 0 in every call, is the number of ids given so far.
C1_SequentialIds ==
    LET ids == UseIds(result)
    IN  /\ C1_Numbered(ids)
        /\ \A k \in DOMAIN ids :
              /\ k < 10000 => Len(ids[k].digits) = 4
              /\ k >= 10000 => Len(ids[k].digits) > 4 /\ ids[k].digits[1] # 0

\* C1 as stated: every id has exactly 4 digits.
C1_FourDigits ==
    LET ids == UseIds(result)
    IN  /\ C1_Numbered(ids)
        /\ \A k \in DOMAIN ids : Len(ids[k].digits) = 4

C1_Witness ==
    /\ pc = "returned"
    /\ Len(UseIds(result)) > 10000
    /\ Cardinality({x \in DOMAIN result : IsUseMessage(result[x])}) = 2

----------------------------------------------------------------------------
\* The id toolu_ followed by four given digits.
LiteralId(d1, d2, d3, d4) == [prefix |-> "toolu_", digits |-> <<d1, d2, d3, d4>>]

\* The tool_use_ids of the tool_result blocks of an output, in output order.
RECURSIVE ResultIds(_)
ResultIds(res) ==
    IF res = <<>> THEN <<>>
    ELSE LET last == res[Len(res)]
             front == ResultIds(SubSeq(res, 1, Len(res) - 1))
         IN  IF IsResultMessage(last)
             THEN front \o [k \in DOMAIN last.blocks |-> last.blocks[k].tool_use_id]
             ELSE front

TwoCallsThreeResponses(m) ==
    /\ WellFormed(m)
    /\ CountRole(m, Len(m), "tool_call") = 2
    /\ CountRole(m, Len(m), "tool_response") = 3
    /\ \E p \in 0..Len(m) :
          RunLen(m, p, "tool_call") = 2 /\ RunLen(m, p + 2, "tool_response") = 3

C2_Positional ==
    (pc = "scan" /\ i < Len(messages) /\ WellFormed(messages)
        /\ messages[i + 1].role = "tool_call") =>
        LET n == RunLen(messages, i, "tool_call")
            r == RunLen(messages, i + n, "tool_response")
            a == result'[Len(result) + 1]
            u == result'[Len(result) + 2]
        IN  \A k \in 1..r : k <= n => u.blocks[k].tool_use_id = a.blocks[k].id

C2_Step ==
    (pc = "scan" /\ i < Len(messages) /\ WellFormed(messages)
        /\ messages[i + 1].role = "tool_call") =>
        LET n == RunLen(messages, i, "tool_call")
            r == RunLen(messages, i + n, "tool_response")
            c == CountRole(messages, i + n, "tool_call")
            u == result'[Len(result) + 2]
        IN  \A k \in 1..r : k > n =>
                /\ u.blocks[k].tool_use_id.prefix = "toolu_"
                /\ Len(u.blocks[k].tool_use_id.digits) = 4
                /\ IdNumber(u.blocks[k].tool_use_id) = c + k

C2_Example ==
    (pc = "returned" /\ TwoCallsThreeResponses(messages)) =>
        ResultIds(result) = <<LiteralId(0, 0, 0, 1), LiteralId(0, 0, 0, 2), LiteralId(0, 0, 0, 5)>>

\* C2 (as amended): in the step over a group of n tool_call turns followed by
\* r tool_response turns, the k-th tool_result carries the id of the k-th
\* tool_use of the assistant message just before it for k <= n, and for k > n
\* the id numbered c + k, where c is the number of tool_call turns of the row up
\* to the end of the group; 2 tool_calls followed by 3 tool_responses yield the
\* result ids toolu_0001, toolu_0002, toolu_0005.
C2_Pairing == [][C2_Positional /\ C2_Step]_vars /\ []C2_Example

\* C2 as stated: the third result of 2 tool_calls and 3 tool_responses is
\* toolu_0004.
C2_AsStated ==
    (pc = "returned" /\ TwoCallsThreeResponses(messages)) =>
        ResultIds(result) = <<LiteralId(0, 0, 0, 1), LiteralId(0, 0, 0, 2), LiteralId(0, 0, 0, 4)>>

C2_Witness ==
    /\ pc = "returned"
    /\ TwoCallsThreeResponses(messages)
    /\ Len(ResultIds(result)) = 3

----------------------------------------------------------------------------
\* C3: in a returned output every tool_result either carries the id of the
\* tool_use at its position in the assistant message just before it, or (a
\* surplus response) an id that no tool_use block of the row carries and no
\* other surplus result carries.
C3_NeverReused ==
    (pc = "returned" /\ WellFormed(messages)) =>
        /\ \A x \in DOMAIN result : IsResultMessage(result[x]) =>
              \A k \in DOMAIN result[x].blocks :
                  k <= Len(result[x - 1].blocks) =>
                      result[x].blocks[k].tool_use_id = result[x - 1].blocks[k].id
        /\ \A x \in Surplus(result) :
              LET id == result[x[1]].blocks[x[2]].tool_use_id
              IN  /\ \A k \in DOMAIN UseIds(result) : UseIds(result)[k] # id
                  /\ \A y \in Surplus(result) :
                        y # x => result[y[1]].blocks[y[2]].tool_use_id # id

----------------------------------------------------------------------------
(* Vocabulary of the properties of the driver loop.                        *)

MalformedJson(cell) == cell.py = "str" /\ cell.json = "malformed"

\* The cell decodes to a list of turn objects.
TurnList(cell) ==
    /\ cell.py = "str"
    /\ cell.json = "list"
    /\ \A k \in DOMAIN cell.items : cell.items[k].j = "object"

\* The step reads a row: one iteration of the driver loop begins.
ReadsRow == mpc = "loop" /\ processed' = processed + 1

ExceedsMax(cell) == ~args.max_tool_calls.none /\ cell.marker > args.max_tool_calls.v

----------------------------------------------------------------------------
\* The step of the driver loop over a row with a malformed column.
C6_Step ==
    (ReadsRow /\ (MalformedJson(messages_json')
                    \/ (MalformedJson(tools_json') /\ TurnList(messages_json')))) =>
        /\ stdout' = stdout
        /\ count' = count
        /\ mpc' = "loop"
        /\ IF ExceedsMax(messages_json')
           THEN /\ filtered_tool_calls' = filtered_tool_calls + 1
                /\ errors' = errors /\ filtered_lang' = filtered_lang
           ELSE IF args.no_lang_filter
           THEN /\ errors' = errors + 1
                /\ filtered_lang' = filtered_lang
                /\ filtered_tool_calls' = filtered_tool_calls
           ELSE IF MalformedJson(messages_json')
           THEN /\ filtered_lang' = filtered_lang + 1
                /\ errors' = errors
                /\ filtered_tool_calls' = filtered_tool_calls
           ELSE /\ filtered_tool_calls' = filtered_tool_calls
                /\ \/ errors' = errors + 1 /\ filtered_lang' = filtered_lang
                   \/ errors' = errors /\ filtered_lang' = filtered_lang + 1

----------------------------------------------------------------------------
\* C7: in streaming mode no row makes main leave the driver loop by an
\* exception.
C7_NoRowAborts == ~args.sample => mpc # "aborted"

----------------------------------------------------------------------------
\* The declarations of type "function" of a tools cell, in input order.
FunctionDecls(cell) == SelectSeq(cell.items, LAMBDA d : d.type = "function")

C8_Step ==
    stdout' # stdout =>
        LET rec == stdout'[Len(stdout')]
            fn == FunctionDecls(tools_json')
        IN  /\ stdout' = Append(stdout, rec)
            /\ Len(rec.tools) = Len(fn)
            /\ \A k \in DOMAIN fn : rec.tools[k].name = fn[k].name
            /\ IF fn = <<>> THEN "tools" \notin rec.keys
               ELSE "tools" \in rec.keys /\ "tools" \notin rec.nulls

\* C8: every record written to standard output carries, as its tools, one
\* Tool-Spec per declaration of type "function" of the row, in input order, and
\* no others; when there is none the record has no tools key, and a tools key
\* that is present is never null.
C8_ToolsKey == [][C8_Step]_vars

----------------------------------------------------------------------------
\* The counters after a completed iteration.
C9_Accounting ==
    (~args.sample /\ mpc \in {"loop", "done"}) =>
        /\ processed = count + filtered_tool_calls + filtered_lang + errors
        /\ Len(stdout) = count

C9_Step ==
    /\ count' >= count
    /\ errors' >= errors
    /\ filtered_lang' >= filtered_lang
    /\ filtered_tool_calls' >= filtered_tool_calls
    /\ processed' >= processed
    /\ (ReadsRow /\ mpc' = "loop") =>
          /\ Cardinality({c \in {<<1, count' - count>>, <<2, errors' - errors>>,
                                 <<3, filtered_lang' - filtered_lang>>,
                                 <<4, filtered_tool_calls' - filtered_tool_calls>>} :
                             c[2] = 1}) = 1
          /\ Cardinality({c \in {<<1, count' - count>>, <<2, errors' - errors>>,
                                 <<3, filtered_lang' - filtered_lang>>,
                                 <<4, filtered_tool_calls' - filtered_tool_calls>>} :
                             c[2] = 0}) = 3
          /\ Len(stdout') = Len(stdout) + (count' - count)
    /\ (ReadsRow /\ ExceedsMax(messages_json')) =>
          /\ mpc' = "loop"
          /\ filtered_tool_calls' = filtered_tool_calls + 1
          /\ filtered_lang' = filtered_lang
          /\ errors' = errors
          /\ count' = count

====
